---- MODULE Spec2Model ----
(***************************************************************************)
(* Model of mariapy/db_interface.py: DBSub (the scoped pymysql connection) *)
(* and DBInterface.dataframe2db (the row-by-row export of a DataFrame into *)
(* an existing MariaDB table), with the helpers it calls: dataframe,       *)
(* query and is_row.                                                       *)
(*                                                                         *)
(* The database is modelled as far as the code observes it: a committed    *)
(* table, the uncommitted view of the connection that dataframe2db writes  *)
(* on (pymysql.connect is called without autocommit, and DBSub.__exit__    *)
(* commits), and a set of connections that are open or closed.             *)
(***************************************************************************)
EXTENDS Integers, Sequences, FiniteSets, TLC

(* ------------------------------ bounds --------------------------------- *)

MaxRows == 2      \* rows of the caller's DataFrame
MaxCalls == 2     \* successive dataframe2db calls on the same DataFrame
MaxFaults == 1    \* driver-level failures (connect / execute / commit)

(* --------------------------- DataFrame values -------------------------- *)

\* A DataFrame cell: k is the Python type of the value, v is str(value).
IntCell(s) == [k |-> "int", v |-> s]
StrCell(s) == [k |-> "str", v |-> s]
NaN == [k |-> "nan", v |-> "nan"]

\* df.columns; df.columns[0] is the identifier column (docstring, line 215).
Columns == <<"id", "name", "balance">>

IdHeader == Columns[1]

DfRow(id, name, balance) == [id |-> id, name |-> name, balance |-> balance]

\* The rows a caller's DataFrame is drawn from: a missing value, a genuine
\* string 'NULL', an ordinary value, and two rows with the same identifier.
RowPool ==
    { DfRow(IntCell("1"), StrCell("Alice"), NaN),
      DfRow(IntCell("1"), StrCell("Bob"), StrCell("NULL")),
      DfRow(IntCell("2"), StrCell("Alice"), IntCell("5")) }

RECURSIVE SeqsUpTo(_, _)
SeqsUpTo(S, n) ==
    IF n = 0 THEN { <<>> }
    ELSE LET shorter == SeqsUpTo(S, n - 1)
         IN shorter \cup { Append(s, x) : s \in { t \in shorter : Len(t) = n - 1 }, x \in S }

DataFrames == SeqsUpTo(RowPool, MaxRows)

\* The index a caller's DataFrame carries: the default RangeIndex 0..n-1 or
\* a custom one (here 10, 20, ...).
RangeIndex(n) == [i \in 1..n |-> i - 1]

CustomIndex(n) == [i \in 1..n |-> 10 * i]

(* ----------------------------- table values ---------------------------- *)

\* A table cell: SQL NULL or a literal.
SqlNull == [null |-> TRUE, v |-> ""]

Lit(s) == [null |-> FALSE, v |-> s]

TblRow(id, name, balance) == [id |-> id, name |-> name, balance |-> balance]

TablePool ==
    { TblRow(Lit("1"), Lit("Alice"), Lit("7")),
      TblRow(Lit("2"), Lit("Bob"), SqlNull) }

\* The primary keys the target table may have (SHOW KEYS ... 'PRIMARY').
PKChoices == { <<"id">>, <<"id", "name">>, <<"name", "id">> }

\* The values callers pass for if_exist; "merge" is not one the code knows.
Policies == { "fail", "replace", "update", "merge" }

(* ------------------- dataframe2db: lines 220-238 ----------------------- *)

\* df.reset_index(drop=True, inplace=True) (line 234): the index becomes
\* 0..n-1 whatever it was.
ResetIndex(ix) == [i \in 1..Len(ix) |-> i - 1]

\* df.fillna('NULL', inplace=True) (line 236): every missing value becomes
\* the string 'NULL'.
FillNaCell(cell) == IF cell.k = "nan" THEN StrCell("NULL") ELSE cell

FillNa(d) == [i \in 1..Len(d) |-> [c \in DOMAIN d[i] |-> FillNaCell(d[i][c])]]

\* Python's  value != 'NULL'  (lines 231 and 255).
NotNULL(cell) == ~(cell.k = "str" /\ cell.v = "NULL")

\* One value of transfer_nan_values_to_sql_null (line 231): ', "' + str(value)
\* + '"' unless the value equals 'NULL', which is emitted bare.
EncodeValue(cell) == [quoted |-> NotNULL(cell), text |-> cell.v]

\* transfer_nan_values_to_sql_null(s=df.iloc[num, :]) (lines 220-232).
TransferNanValuesToSqlNull(row) ==
    [i \in 1..Len(Columns) |-> EncodeValue(row[Columns[i]])]

(* ------------------- statements built by dataframe2db ------------------ *)

NoStmt == [op |-> "NONE", cols |-> <<>>, vals |-> <<>>, where |-> <<>>]

\* InsertStmt building the statement of the 'replace' branch.
InsertStmt_AsReplace(row) ==
    [op |-> "REPLACE", cols |-> Columns,
     vals |-> TransferNanValuesToSqlNull(row), where |-> <<>>]

\* Line 263.
InsertStmt(row) ==
    [op |-> "INSERT", cols |-> Columns,
     vals |-> TransferNanValuesToSqlNull(row), where |-> <<>>]

\* Lines 249-250.
ReplaceStmt(row) ==
    [op |-> "REPLACE", cols |-> Columns,
     vals |-> TransferNanValuesToSqlNull(row), where |-> <<>>]

InSeq(x, s) == \E i \in 1..Len(s) : s[i] = x

RECURSIVE Without(_, _)
\* df.drop(list_primary_keys, axis=1).columns (line 254): the columns of cs
\* that are not primary keys, in DataFrame order.
Without(cs, pks) ==
    IF cs = <<>> THEN <<>>
    ELSE IF InSeq(Head(cs), pks) THEN Without(Tail(cs), pks)
         ELSE <<Head(cs)>> \o Without(Tail(cs), pks)

\* UpdateStmt with the WHERE conjuncts taken in df's column order.
UpdateStmt_WhereInColumnOrder(row, pks) ==
    LET setcols == Without(Columns, pks)
        keycols == Without(Columns, setcols)
    IN [op |-> "UPDATE", cols |-> setcols,
        vals |-> [i \in 1..Len(setcols) |-> EncodeValue(row[setcols[i]])],
        where |-> [i \in 1..Len(keycols) |->
                      [col |-> keycols[i],
                       val |-> [quoted |-> TRUE, text |-> row[keycols[i]].v]]]]

\* Lines 253-258: SET over the non-key columns, WHERE over the keys in the
\* order SHOW KEYS returned them; the WHERE values are always quoted.
UpdateStmt(row, pks) ==
    LET setcols == Without(Columns, pks)
    IN [op |-> "UPDATE", cols |-> setcols,
        vals |-> [i \in 1..Len(setcols) |-> EncodeValue(row[setcols[i]])],
        where |-> [i \in 1..Len(pks) |->
                      [col |-> pks[i], val |-> [quoted |-> TRUE, text |-> row[pks[i]].v]]]]

\* df.drop raises KeyError when a key column is no column of df (line 254).
DropRaises(pks) == \E i \in 1..Len(pks) : ~InSeq(pks[i], Columns)

\* BranchOf with the 'fail' branch falling through to the 'replace' branch.
BranchOf_FailFallsThrough(present, policy) ==
    IF ~present THEN "insert"
    ELSE IF policy \in {"fail", "replace"} THEN "replace"
    ELSE IF policy = "update" THEN "update"
    ELSE "wrong_input"

\* BranchOf with the 'replace' and 'update' branches interchanged.
BranchOf_Interchanged(present, policy) ==
    IF ~present THEN "insert"
    ELSE IF policy = "fail" THEN "skip"
    ELSE IF policy = "replace" THEN "update"
    ELSE IF policy = "update" THEN "replace"
    ELSE "wrong_input"

\* The branch of lines 244-264 a row takes.
BranchOf(present, policy) ==
    IF ~present THEN "insert"
    ELSE IF policy = "fail" THEN "skip"
    ELSE IF policy = "replace" THEN "replace"
    ELSE IF policy = "update" THEN "update"
    ELSE "wrong_input"

\* The statement the branch builds.
BuildStmt(branch, row, pks) ==
    IF branch = "insert" THEN InsertStmt(row)
    ELSE IF branch = "replace" THEN ReplaceStmt(row)
    ELSE IF branch = "update" THEN UpdateStmt(row, pks)
    ELSE NoStmt

\* is_row's statement (lines 129-132): a string id is quoted, any other is not.
ProbeStmt(cell) ==
    [op |-> "SELECT", cols |-> <<>>, vals |-> <<>>,
     where |-> << [col |-> IdHeader, val |-> [quoted |-> cell.k = "str", text |-> cell.v]] >>]

\* Line 241.
ShowKeysStmt == [op |-> "SHOW KEYS", cols |-> <<>>, vals |-> <<>>, where |-> <<>>]

\* IsRow taking a query that failed for a row that is there.
IsRow_FailedCountsAsPresent(queryOk, rows) == ~queryOk \/ rows # {}

\* is_row, line 134: True iff the query returned rows; a failed query
\* returns None (query, lines 117-118), which counts as no rows.
IsRow(queryOk, rows) == queryOk /\ rows # {}

(* --------------------- what cur.execute does to the table -------------- *)

Store(token) == IF token.quoted THEN Lit(token.text) ELSE SqlNull

Matches(r, where) ==
    \A i \in 1..Len(where) : ~r[where[i].col].null /\ r[where[i].col].v = where[i].val.text

Select(tbl, where) == { r \in tbl : Matches(r, where) }

StmtRow(stmt) ==
    [c \in { stmt.cols[i] : i \in 1..Len(stmt.cols) } |->
        Store(stmt.vals[CHOOSE i \in 1..Len(stmt.cols) : stmt.cols[i] = c])]

SameKey(r, s, pks) == \A i \in 1..Len(pks) : r[pks[i]] = s[pks[i]]

\* The server rejects: a duplicate primary key on INSERT, NULL in a key
\* column, and an UPDATE whose SET list or WHERE clause came out empty
\* (line 256 then cuts "SET" to "SE"; line 257 leaves "WHERE ;").
ServerRejects(tbl, stmt, pks) ==
    \/ /\ stmt.op \in {"INSERT", "REPLACE"}
       /\ \E i \in 1..Len(pks) : StmtRow(stmt)[pks[i]].null
    \/ /\ stmt.op = "INSERT"
       /\ \E r \in tbl : SameKey(r, StmtRow(stmt), pks)
    \/ /\ stmt.op = "UPDATE"
       /\ (stmt.cols = <<>> \/ stmt.where = <<>>)

ApplyStmt(tbl, stmt, pks) ==
    IF stmt.op = "INSERT" THEN tbl \cup { StmtRow(stmt) }
    ELSE IF stmt.op = "REPLACE"
    THEN { r \in tbl : ~SameKey(r, StmtRow(stmt), pks) } \cup { StmtRow(stmt) }
    ELSE IF stmt.op = "UPDATE"
    THEN { IF Matches(r, stmt.where)
           THEN [c \in DOMAIN r |-> IF c \in DOMAIN StmtRow(stmt) THEN StmtRow(stmt)[c] ELSE r[c]]
           ELSE r : r \in tbl }
    ELSE tbl

\* A table is a set of rows with pairwise distinct primary keys.
KeyUnique(tbl, pks) == \A r, s \in tbl : SameKey(r, s, pks) => r = s

(* ------------------------------- state --------------------------------- *)

VARIABLES
    df,                 \* the caller's DataFrame: a sequence of rows
    index,              \* df.index
    categorical,        \* df holds a category column that rejects 'NULL'
    df0, index0,        \* df and df.index as the caller built them
    if_exist,           \* the policy the caller passes
    pkeys,              \* the primary key of the target table
    table,              \* the committed rows of the target table
    table0,             \* the committed rows when the current call began
    tx,                 \* the table as the writing connection sees it
    pc,                 \* where dataframe2db stands
    num,                \* the loop counter of line 242 (1-based here)
    res_bool,           \* is_row's answer for row num
    sql_cmd,            \* the statement built for row num
    list_primary_keys,  \* line 241
    exc,                \* the exception in flight, "none" if none
    res,                \* line 270
    conns,              \* the connections opened by the current call
    issued,             \* the statements handed to the driver by the current call
    probes,             \* is_row's answers in the current call, one per row reached
    printed,            \* the per-row messages of lines 246, 251, 259, 264
    warnings,           \* the rows whose probe printed the warning of line 118
    faults,             \* driver-level failures so far
    calls,              \* dataframe2db calls started
    finals              \* one record per finished call

vars == << df, index, categorical, df0, index0, if_exist, pkeys, table, table0, tx, pc,
           num, res_bool, sql_cmd, list_primary_keys, exc, res, conns, issued,
           probes, printed, warnings, faults, calls, finals >>

inputs == << categorical, df0, index0, if_exist, pkeys >>

frame == << df, index, inputs, table0 >>

Init ==
    /\ df \in DataFrames
    /\ index \in { RangeIndex(Len(df)), CustomIndex(Len(df)) }
    /\ categorical \in BOOLEAN
    \* a category column that rejects 'NULL' holds no 'NULL'; such frames are
    \* taken with the default index
    /\ categorical => \A i \in 1..Len(df) : NotNULL(df[i].balance)
    /\ categorical => index = RangeIndex(Len(df))
    /\ df0 = df
    /\ index0 = index
    /\ if_exist \in Policies
    /\ pkeys \in PKChoices
    /\ table \in SUBSET TablePool
    /\ table0 = table
    /\ tx = table
    /\ pc = "idle"
    /\ num = 0
    /\ res_bool = FALSE
    /\ sql_cmd = NoStmt
    /\ list_primary_keys = <<>>
    /\ exc = "none"
    /\ res = <<>>
    /\ conns = <<>>
    /\ issued = <<>>
    /\ probes = <<>>
    /\ printed = <<>>
    /\ warnings = <<>>
    /\ faults = 0
    /\ calls = 0
    /\ finals = <<>>

(* ----------------------------- connections ----------------------------- *)

\* DBSub.__init__ (lines 25-26): a connection, open, its scope not yet left.
NewConn(role) == [role |-> role, open |-> TRUE, left |-> FALSE]

\* DBSub.__exit__ (lines 34-39): con.commit() comes first; con.close() is
\* reached only when the commit did not raise.
ExitConn(c, commitOk) == [c EXCEPT !.open = ~commitOk, !.left = TRUE]

\* dataframe's finally clause (lines 101-103): close, no commit.
FinallyClose(c) == [c EXCEPT !.open = FALSE, !.left = TRUE]

SyncConn == 1

Event(kind, row, conn, stmt, ok) ==
    [kind |-> kind, row |-> row, conn |-> conn, stmt |-> stmt, ok |-> ok]

\* The record of a finished call.
Final(tbl, error, value) ==
    [table |-> tbl, result |-> IF error = "none" THEN "returned" ELSE "raised",
     error |-> error, res |-> value]

\* Advance walking the rows from the last to the first.
Advance_Reversed(n) ==
    IF n = 0
    THEN [num |-> Len(df), pc |-> IF Len(df) > 0 THEN "probe" ELSE "fetchall"]
    ELSE [num |-> n - 1, pc |-> IF n > 1 THEN "probe" ELSE "fetchall"]

\* AfterOpen going straight into the loop, the primary keys left for later.
AfterOpen_Deferred == IF Len(df) > 0 THEN "probe" ELSE "fetchall"

\* The loop of line 242, after row n (0: before the first): on to row n + 1,
\* or to line 270 after the last.
Advance(n) == [num |-> n + 1, pc |-> IF n < Len(df) THEN "probe" ELSE "fetchall"]

\* Line 241 follows line 240 directly, before the loop and whatever if_exist.
AfterOpen == "pk"

CanFail(k) == faults + k <= MaxFaults

(* ------------------------------- actions ------------------------------- *)

\* dataframe2db is entered: lines 234-238 work on the caller's df in place.
Call ==
    /\ pc = "idle"
    /\ calls < MaxCalls
    /\ calls' = calls + 1
    /\ index' = ResetIndex(index)
    /\ df' = IF categorical THEN df ELSE FillNa(df)
    /\ pc' = "open"
    /\ num' = 0
    /\ res_bool' = FALSE
    /\ sql_cmd' = NoStmt
    /\ list_primary_keys' = <<>>
    /\ exc' = "none"
    /\ res' = <<>>
    /\ conns' = <<>>
    /\ issued' = <<>>
    /\ probes' = <<>>
    /\ printed' = <<>>
    /\ warnings' = <<>>
    /\ table0' = table
    /\ UNCHANGED << inputs, table, tx, faults, finals >>

\* Line 240: DBSub(...) connects; a failed connect raises out of the call.
OpenSync ==
    /\ pc = "open"
    /\ \E ok \in BOOLEAN :
        /\ ~ok => CanFail(1)
        /\ faults' = IF ok THEN faults ELSE faults + 1
        /\ IF ok
           THEN /\ conns' = << NewConn("sync") >>
                /\ tx' = table
                /\ pc' = AfterOpen
                /\ UNCHANGED << exc, finals >>
           ELSE /\ exc' = "OperationalError"
                /\ finals' = Append(finals, Final(table, "OperationalError", <<>>))
                /\ pc' = "idle"
                /\ UNCHANGED << conns, tx >>
    /\ UNCHANGED << frame, warnings, table, num, res_bool, sql_cmd,
                    list_primary_keys, res, issued, probes, printed, calls >>

\* Line 241: self.dataframe(sql_cmd="SHOW KEYS ...") opens a connection of
\* its own, reads, and closes it in a finally clause (lines 98-104).
FetchPrimaryKeys ==
    /\ pc = "pk"
    /\ \E connectOk, readOk \in BOOLEAN :
        /\ (~connectOk \/ ~readOk) => CanFail(1)
        /\ ~connectOk => readOk
        /\ faults' = IF connectOk /\ readOk THEN faults ELSE faults + 1
        /\ conns' = IF connectOk THEN Append(conns, FinallyClose(NewConn("pk"))) ELSE conns
        /\ issued' = IF connectOk
                     THEN Append(issued, Event("pk", 0, Len(conns) + 1, ShowKeysStmt, readOk))
                     ELSE issued
        /\ IF connectOk /\ readOk
           THEN /\ list_primary_keys' = pkeys
                /\ num' = Advance(0).num
                /\ pc' = Advance(0).pc
                /\ UNCHANGED exc
           ELSE /\ exc' = IF connectOk THEN "DatabaseError" ELSE "OperationalError"
                /\ pc' = "exit"
                /\ UNCHANGED << list_primary_keys, num >>
    /\ UNCHANGED << frame, warnings, table, tx, res_bool, sql_cmd, res,
                    probes, printed, calls, finals >>

\* Line 244: is_row (lines 122-136) runs its SELECT through query (lines
\* 110-118), on a connection of its own that sees committed rows only; any
\* exception, DBSub.__exit__'s included, is caught there and None returned.
Probe ==
    /\ pc = "probe"
    /\ \E connectOk, execOk, commitOk \in BOOLEAN :
        LET k == (IF connectOk THEN 0 ELSE 1) + (IF execOk THEN 0 ELSE 1)
                 + (IF commitOk THEN 0 ELSE 1)
            stmt == ProbeStmt(df[num][IdHeader])
            answer == IsRow(connectOk /\ execOk /\ commitOk, Select(table, stmt.where))
        IN /\ k > 0 => CanFail(k)
           /\ ~connectOk => (execOk /\ commitOk)
           /\ faults' = faults + k
           /\ conns' = IF connectOk
                       THEN Append(conns, ExitConn(NewConn("probe"), commitOk))
                       ELSE conns
           /\ issued' = IF connectOk
                        THEN Append(issued, Event("probe", num, Len(conns) + 1, stmt, execOk))
                        ELSE issued
           /\ res_bool' = answer
           /\ probes' = Append(probes, [row |-> num, present |-> answer])
           /\ warnings' = IF k > 0 THEN Append(warnings, num) ELSE warnings
    /\ pc' = "build"
    /\ UNCHANGED << frame, table, tx, num, sql_cmd, list_primary_keys,
                    exc, res, printed, calls, finals >>

\* Lines 244-266: the branch on is_row's answer and if_exist.
Build ==
    /\ pc = "build"
    /\ LET branch == BranchOf(res_bool, if_exist)
       IN IF branch = "skip"
          THEN /\ printed' = Append(printed, [row |-> num, tag |-> branch])
               /\ num' = Advance(num).num
               /\ pc' = Advance(num).pc
               /\ UNCHANGED << sql_cmd, exc >>
          ELSE IF branch = "wrong_input" \/ (branch = "update" /\ DropRaises(list_primary_keys))
          THEN /\ exc' = "KeyError"
               /\ pc' = "exit"
               /\ UNCHANGED << sql_cmd, printed, num >>
          ELSE /\ sql_cmd' = BuildStmt(branch, df[num], list_primary_keys)
               /\ printed' = Append(printed, [row |-> num, tag |-> branch])
               /\ pc' = "exec"
               /\ UNCHANGED << exc, num >>
    /\ UNCHANGED << frame, warnings, table, tx, res_bool, list_primary_keys, res,
                    conns, issued, probes, faults, calls, finals >>

\* Line 269: cur.execute(sql_cmd) on the connection of line 240, outside the
\* try block, so whatever it raises leaves the loop as it is.
Execute ==
    /\ pc = "exec"
    /\ \E driverOk \in BOOLEAN :
        LET rejected == ServerRejects(tx, sql_cmd, pkeys)
            ok == driverOk /\ ~rejected
        IN /\ ~driverOk => CanFail(1)
           /\ faults' = IF driverOk THEN faults ELSE faults + 1
           /\ issued' = Append(issued, Event("write", num, SyncConn, sql_cmd, ok))
           /\ IF ok
              THEN /\ tx' = ApplyStmt(tx, sql_cmd, pkeys)
                   /\ num' = Advance(num).num
                   /\ pc' = Advance(num).pc
                   /\ UNCHANGED exc
              ELSE /\ exc' = IF driverOk THEN "IntegrityError" ELSE "OperationalError"
                   /\ pc' = "exit"
                   /\ UNCHANGED << tx, num >>
    /\ UNCHANGED << frame, warnings, table, res_bool, sql_cmd, list_primary_keys,
                    res, conns, probes, printed, calls, finals >>

Executed == \E i \in 1..Len(issued) : issued[i].kind = "write"

\* Line 270: cur.fetchall() after the loop. The statements of the loop return
\* no rows. On a cursor that never executed anything the driver may raise
\* (pymysql: ProgrammingError "execute() first") or hand back nothing.
FetchAll ==
    /\ pc = "fetchall"
    /\ \E raises \in BOOLEAN :
        /\ raises => ~Executed
        /\ exc' = IF raises THEN "ProgrammingError" ELSE exc
    /\ res' = <<>>
    /\ pc' = "exit"
    /\ UNCHANGED << frame, warnings, table, tx, num, res_bool, sql_cmd,
                    list_primary_keys, conns, issued, probes, printed, faults,
                    calls, finals >>

\* AfterExit committing only when the block was left without an exception.
AfterExit_RollbackOnError(commitOk, error) ==
    IF commitOk /\ error = "none" THEN tx ELSE table

\* The committed table after DBSub.__exit__: line 35 commits whatever
\* exc_type is; what a failed commit left uncommitted is lost.
AfterExit(commitOk, error) == IF commitOk THEN tx ELSE table

\* DBSub.__exit__ (lines 34-39) for the connection of line 240, on the way
\* out of the with block, normally (return res, line 271) or with exc in
\* flight; a failing commit raises in place of either and skips close().
ExitScope ==
    /\ pc = "exit"
    /\ \E commitOk \in BOOLEAN :
        LET error == IF commitOk THEN exc ELSE "OperationalError"
            after == AfterExit(commitOk, exc)
        IN /\ ~commitOk => CanFail(1)
           /\ faults' = IF commitOk THEN faults ELSE faults + 1
           /\ conns' = [conns EXCEPT ![SyncConn] = ExitConn(@, commitOk)]
           /\ table' = after
           /\ tx' = after
           /\ exc' = error
           /\ finals' = Append(finals, Final(after, error, res))
    /\ pc' = "idle"
    /\ UNCHANGED << frame, warnings, num, res_bool, sql_cmd, list_primary_keys,
                    res, issued, probes, printed, calls >>

Next ==
    \/ Call
    \/ OpenSync
    \/ FetchPrimaryKeys
    \/ Probe
    \/ Build
    \/ Execute
    \/ FetchAll
    \/ ExitScope

Spec == Init /\ [][Next]_vars

TypeOK ==
    /\ pc \in {"idle", "open", "pk", "probe", "build", "exec", "fetchall", "exit"}
    /\ KeyUnique(table, pkeys)
    /\ KeyUnique(tx, pkeys)
    /\ faults \in 0..MaxFaults
    /\ calls \in 0..MaxCalls
    /\ Len(finals) <= calls

(* ------------------------- properties of a call ------------------------ *)

\* The current call is over; its history is complete.
CallEnded == pc = "idle" /\ calls > 0

Last == finals[Len(finals)]

Known == {"fail", "replace", "update"}

WritesOf(r) == { i \in 1..Len(issued) : issued[i].kind = "write" /\ issued[i].row = r }

Writes == { i \in 1..Len(issued) : issued[i].kind = "write" }

PkLookups == { i \in 1..Len(issued) : issued[i].kind = "pk" }

\* The rows of tbl that carry the identifier of row r of df.
WithIdOf(tbl, r) == { t \in tbl : ~t[IdHeader].null /\ t[IdHeader].v = df[r][IdHeader].v }

\* Row r has been probed and its branch and statement are behind it.
Settled(r) == r <= Len(probes) /\ ~(num = r /\ pc \in {"build", "exec"})

C2_UnknownPolicyWritesNothing ==
    if_exist \notin Known =>
        /\ Writes = {}
        /\ (CallEnded /\ faults = 0 /\ Len(df) > 0) =>
            (Last.result = "raised" /\ Last.error = "KeyError")

\* C3: the caller's DataFrame is never changed: its index and its values,
\* missing ones included, are what the caller built.
C3_DatasetUntouched == df = df0 /\ index = index0

\* C4: rows are handled in DataFrame order: the statements issued for the
\* rows (probe, then write) come in increasing row position, a row's probe
\* before its write, and is_row's answers come one per row in that order.
C4_DatasetOrder ==
    /\ \A r \in 1..Len(probes) : probes[r].row = r
    /\ \A a, b \in 1..Len(issued) :
        (a < b /\ issued[a].kind \in {"probe", "write"} /\ issued[b].kind \in {"probe", "write"}) =>
            \/ issued[a].row < issued[b].row
            \/ /\ issued[a].row = issued[b].row
               /\ issued[a].kind = "probe"
               /\ issued[b].kind = "write"

C4_Witness ==
    /\ CallEnded
    /\ Cardinality(Writes) >= 2
    /\ \E a, b \in Writes : issued[a].row < issued[b].row

\* C5: every connection whose scope has been left is closed.
C5_LeftMeansClosed == \A c \in 1..Len(conns) : conns[c].left => ~conns[c].open

ExecFailedAt(k) == \E i \in WritesOf(k) : ~issued[i].ok

\* Build raised for row k: the row was probed and no message was printed for it.
BuildFailedAt(k) == pc \in {"exit", "idle"} /\ Len(probes) = k /\ Len(printed) = k - 1

\* C6: a failure while building or executing the statement of row k ends the
\* call with an exception: nothing is issued for a later row, the statement
\* of row k is not issued again, and the connection of the call is closed.
C6_FailureHalts ==
    \A k \in 1..Len(df) :
        (CallEnded /\ (ExecFailedAt(k) \/ BuildFailedAt(k))) =>
            /\ Last.result = "raised"
            /\ \A i \in 1..Len(issued) : issued[i].row <= k
            /\ Len(probes) = k
            /\ Cardinality(WritesOf(k)) <= 1
            /\ ~conns[SyncConn].open

\* C7: under if_exist = 'replace', with no driver failure, a second call on
\* the same DataFrame leaves the table as the first call left it.
C7_ReplaceIdempotent ==
    (if_exist = "replace" /\ faults = 0) =>
        \A c \in 2..Len(finals) : finals[c].table = finals[c - 1].table

\* C8: for a row that is_row reports absent, exactly one INSERT is issued, on
\* the connection of the call, naming every column of df in df's order with
\* that row's values, and the insert message is printed, whatever if_exist;
\* a call that returns on a table holding none of the identifiers of df has
\* issued exactly one INSERT per row.
C8_AbsentInserted ==
    /\ \A r \in 1..Len(probes) :
        (~probes[r].present /\ Settled(r)) =>
            /\ Cardinality(WritesOf(r)) = 1
            /\ \A i \in WritesOf(r) :
                /\ issued[i].stmt.op = "INSERT"
                /\ issued[i].stmt.cols = Columns
                /\ Len(issued[i].stmt.vals) = Len(Columns)
                /\ \A c \in 1..Len(Columns) : issued[i].stmt.vals[c].text = df[r][Columns[c]].v
                /\ issued[i].conn = SyncConn
            /\ \E j \in 1..Len(printed) : printed[j] = [row |-> r, tag |-> "insert"]
    /\ (/\ CallEnded
        /\ Last.result = "returned"
        /\ \A r \in 1..Len(df) : WithIdOf(table0, r) = {}) =>
            /\ Cardinality(Writes) = Len(df)
            /\ \A r \in 1..Len(df) :
                \E i \in WritesOf(r) : issued[i].stmt.op = "INSERT" /\ issued[i].ok

C8_Witness ==
    /\ CallEnded
    /\ Last.result = "returned"
    /\ Len(df) >= 2
    /\ if_exist \notin Known
    /\ \A r \in 1..Len(df) : WithIdOf(table0, r) = {} /\ ~probes[r].present

\* The message a row's branch prints (lines 246, 251, 259, 264).
MessageFor(present, policy) ==
    IF ~present THEN "insert"
    ELSE IF policy = "fail" THEN "skip"
    ELSE IF policy = "replace" THEN "replace"
    ELSE IF policy = "update" THEN "update"
    ELSE "none"

\* C9 as claimed: a call that returns hands back one outcome per row of df.
C9_OutcomePerRow ==
    (CallEnded /\ Last.result = "returned") => Len(Last.res) = Len(df)

\* C9 amended: a call that returns hands back the rows fetched after its
\* last statement, which are none, however many rows df has; the branch each
\* row took is reported by one printed message per row, in df's order.
C9_MessagePerRow ==
    (CallEnded /\ Last.result = "returned") =>
        /\ Last.res = <<>>
        /\ Len(printed) = Len(df)
        /\ Len(probes) = Len(df)
        /\ \A r \in 1..Len(df) :
            /\ printed[r].row = r
            /\ printed[r].tag = MessageFor(probes[r].present, if_exist)
            /\ printed[r].tag \in {"skip", "replace", "update", "insert"}

C9_Witness ==
    /\ CallEnded
    /\ Last.result = "returned"
    /\ Len(df) = 2
    /\ printed[1].tag = "update"
    /\ printed[2].tag = "insert"

\* C10 as claimed: the primary keys are looked up only in a call where some
\* row reaches the update branch (stated for calls that return, with no
\* driver failure).
C10_LookupOnlyOnUpdate ==
    (CallEnded /\ faults = 0 /\ Last.result = "returned" /\ Executed /\ PkLookups # {}) =>
        (if_exist = "update" /\ \E r \in 1..Len(probes) : probes[r].present)

\* C10 amended: the primary keys are looked up at most once per call, as the
\* first statement of the call and before any row is probed; a call that has
\* come to its loop has looked them up, whatever if_exist and whether or not
\* a row reaches the update branch.
C10_LookupOnceUpFront ==
    /\ Cardinality(PkLookups) <= 1
    /\ PkLookups \subseteq {1}
    /\ (pc \in {"probe", "build", "exec", "fetchall"} \/ Len(probes) > 0) =>
        /\ PkLookups = {1}
        /\ issued[1].ok
        /\ list_primary_keys = pkeys

C10_Witness ==
    /\ CallEnded
    /\ if_exist = "fail"
    /\ PkLookups = {1}
    /\ Len(probes) = 2
    /\ \A r \in 1..Len(probes) : ~probes[r].present

\* C11: for a present row under if_exist = 'update' exactly one statement is
\* issued, an UPDATE; its SET list names the columns of df that are not in
\* the table's primary key, each once, with that row's values, and no key
\* column; its WHERE clause has one equality per key column, in the order of
\* the primary key, with that row's value for the column.
C11_UpdateShape ==
    /\ \A r \in 1..Len(probes) :
        (if_exist = "update" /\ probes[r].present /\ Settled(r)) =>
            /\ Cardinality(WritesOf(r)) = 1
            /\ \A i \in WritesOf(r) : issued[i].stmt.op = "UPDATE"
    /\ \A i \in Writes :
        issued[i].stmt.op = "UPDATE" =>
            LET s == issued[i].stmt
                r == issued[i].row
            IN /\ if_exist = "update" /\ probes[r].present
               /\ \A j \in 1..Len(s.cols) : InSeq(s.cols[j], Columns) /\ ~InSeq(s.cols[j], pkeys)
               /\ \A j, k \in 1..Len(s.cols) : s.cols[j] = s.cols[k] => j = k
               /\ \A c \in 1..Len(Columns) : ~InSeq(Columns[c], pkeys) => InSeq(Columns[c], s.cols)
               /\ Len(s.vals) = Len(s.cols)
               /\ \A j \in 1..Len(s.cols) : s.vals[j].text = df[r][s.cols[j]].v
               /\ Len(s.where) = Len(pkeys)
               /\ \A j \in 1..Len(pkeys) :
                    /\ s.where[j].col = pkeys[j]
                    /\ s.where[j].val.text = df[r][pkeys[j]].v

C11_Witness ==
    /\ CallEnded
    /\ pkeys = <<"name", "id">>
    /\ \E i \in Writes : issued[i].stmt.op = "UPDATE" /\ issued[i].ok

\* C12: the statement issued for a present row under if_exist = 'replace' is
\* a REPLACE INTO naming every column of df in df's order, with one value
\* per column; a value is the bare NULL exactly when the caller's value is
\* missing, and the quoted str() of the caller's value otherwise (stated for
\* frames without a category column and for statements the server accepts).
C12_ReplaceEncoding ==
    \A i \in Writes :
        (issued[i].stmt.op = "REPLACE" /\ issued[i].ok /\ ~categorical) =>
            LET s == issued[i].stmt
                r == issued[i].row
            IN /\ if_exist = "replace" /\ probes[r].present
               /\ s.cols = Columns
               /\ Len(s.vals) = Len(Columns)
               /\ \A c \in 1..Len(Columns) :
                    LET given == df0[r][Columns[c]]
                    IN /\ s.vals[c].quoted <=> given.k # "nan"
                       /\ s.vals[c].quoted => s.vals[c].text = given.v
                       /\ ~s.vals[c].quoted => s.vals[c].text = "NULL"

\* The probe of row r failed in the driver: the connect (no statement was
\* issued), the SELECT, or the commit of DBSub.__exit__ (the connection of
\* the probe is left open).
ProbeFailed(r) ==
    /\ r <= Len(probes)
    /\ \/ \A i \in 1..Len(issued) : ~(issued[i].kind = "probe" /\ issued[i].row = r)
       \/ \E i \in 1..Len(issued) :
            /\ issued[i].kind = "probe"
            /\ issued[i].row = r
            /\ (~issued[i].ok \/ conns[issued[i].conn].open)

\* C13: a probe that fails in the driver raises nothing: the warning is
\* printed, is_row answers False, and the row takes the insert branch, so
\* that one INSERT is issued for it, whatever if_exist.
C13_FailedProbeInserts ==
    \A r \in 1..Len(probes) :
        ProbeFailed(r) =>
            /\ ~probes[r].present
            /\ InSeq(r, warnings)
            /\ (num = r /\ pc = "build") => exc = "none"
            /\ Settled(r) =>
                /\ Cardinality(WritesOf(r)) = 1
                /\ \A i \in WritesOf(r) : issued[i].stmt.op = "INSERT"
                /\ \E j \in 1..Len(printed) : printed[j] = [row |-> r, tag |-> "insert"]

C13_Witness ==
    /\ if_exist = "fail"
    /\ CallEnded
    /\ ProbeFailed(1)
    /\ WithIdOf(table0, 1) # {}
    /\ \E i \in WritesOf(1) : issued[i].stmt.op = "INSERT"

\* C14: a call uses one connection: no second connection is opened while it
\* runs and every statement goes over the connection of line 240.
C14_SingleConnection ==
    /\ Len(conns) <= 1
    /\ \A i \in 1..Len(issued) : issued[i].conn = SyncConn

RECURSIVE Replay(_)
\* The table the call began with, after the first i statements of the call
\* as far as the server accepted them.
Replay(i) ==
    IF i = 0 THEN table0
    ELSE IF issued[i].kind = "write" /\ issued[i].ok
         THEN ApplyStmt(Replay(i - 1), issued[i].stmt, pkeys)
         ELSE Replay(i - 1)

\* C15: DBSub.__exit__ commits on every exit. When a call is aborted at row
\* k, by its build or by its statement, and its connection has been closed,
\* the committed table holds what the statements of the rows before k did
\* to the table of the call's start, all of them and nothing of row k or of
\* a later row.
C15_PrefixCommitted ==
    \A k \in 1..Len(df) :
        (/\ CallEnded
         /\ ExecFailedAt(k) \/ BuildFailedAt(k)
         /\ ~conns[SyncConn].open) =>
            /\ table = Replay(Len(issued))
            /\ Last.table = table
            /\ Last.result = "raised"
            /\ \A r \in 1..(k - 1) :
                \/ (probes[r].present /\ if_exist = "fail")
                \/ \E i \in WritesOf(r) : issued[i].ok
            /\ \A i \in Writes : issued[i].ok <=> issued[i].row < k

C15_Witness ==
    /\ CallEnded
    /\ ExecFailedAt(2)
    /\ ~conns[SyncConn].open
    /\ table # table0
    /\ Last.result = "raised"

====
